---- MODULE Spec2Model ----
(***************************************************************************)
(* A model of package graph (src/graph/graph.go): arcs between nodes kept  *)
(* as documents of a keyed document store, the lock-protected              *)
(* read-modify-write of UpdateRelation, the unprotected CreateArc, and the *)
(* paged, counted and iterated traversal queries.                          *)
(*                                                                         *)
(* The document store (package db) is not part of the repository; its      *)
(* operations are modelled by the contract the package relies on.          *)
(***************************************************************************)
EXTENDS Naturals, Integers, Sequences, FiniteSets, TLC

VARIABLES
    db,       \* the arc documents of the store: document key -> Arc
    lock,     \* the store's locks: document key -> holder, or NoProc
    pc,       \* each caller's position
    loc,      \* each caller's locals: arguments, the local Arc copy la
    ret,      \* each caller's last returned values
    now,      \* the clock read by time.Now()
    prior,    \* the store's documents when the callers started
    plan,     \* the map each caller of the race passes to UpdateRelation
    keyIn,    \* GetMeta's input: the endpoints of an arc
    keyOut,   \* GetMeta's output: the document id, or NoKey
    scen,     \* the traversal asked for: direction, node, verb, page limit
    pg,       \* the paging caller: its NodeQueryResult, the pages so far
    fe,       \* the ForEachTail/ForEachHead loop: size, offset, callbacks made
    deg       \* the caller of Indegree/Outdegree: the values returned

qvars == <<scen, pg, fe, deg>>
vars == <<db, lock, pc, loc, ret, now, prior, plan, keyIn, keyOut, qvars>>

-----------------------------------------------------------------------------
(* Bounds of the model *)

\* length of a type or id string of the key derivation check
MaxStrLen == 2
\* largest page limit a caller of QueryTails/QueryHeads asks for
MaxLimit == 2
\* db.QUERY_LIMIT_MAX, the page size of the iterators, scaled down
QUERY_LIMIT_MAX == 2
\* the clock readings time.Now() can return: 1..MaxNow
MaxNow == 3

-----------------------------------------------------------------------------
(* Values *)

Procs == {"p1", "p2"}
Readers == {"rd"}
AllProcs == Procs \cup Readers
NoProc == "none"

\* relation verbs (graph.go 33-46), two of them
FOLLOW == "follow"
LIKE == "like"
Verbs == {FOLLOW, LIKE}

OBJ_ARC == "arc"

\* type Node
Node(type, id, name) == [type |-> type, id |-> id, name |-> name, photo |-> ""]

\* the zero value of Node
ZeroNode == Node("", "", "")

\* A Go map of type Relation: nil, or a map from some verbs to booleans.
EmptyMap == [v \in {} |-> TRUE]
NilRel == [nil |-> TRUE, m |-> EmptyMap]
MakeRel(f) == [nil |-> FALSE, m |-> f]
VerbMaps == UNION {[S -> BOOLEAN] : S \in SUBSET Verbs}
Relations == {NilRel} \cup {MakeRel(f) : f \in VerbMaps}

\* type Options
Options(ord) == [ord |-> ord]

\* type Arc; createdAt 0 is the zero time
MakeArc(tail, head, relation, options, createdAt) ==
    [type |-> "", tail |-> tail, head |-> head, relation |-> relation,
     options |-> options, createdAt |-> createdAt]

\* (a *Arc) SetType
SetType(a) == [a EXCEPT !.type = OBJ_ARC]

\* (a *Arc) GetMeta: the document id "%s:%s>%s:%s"
GetMetaId(a) ==
    a.tail.type \o ":" \o a.tail.id \o ">" \o a.head.type \o ":" \o a.head.id

-----------------------------------------------------------------------------
(* The merge loop of UpdateRelation *)

\* one iteration of the loop body on la.Relation: assignment to an entry of
\* a nil map panics, delete on a nil map does nothing
MergeStepPanics(rel, key, val) == val /\ rel.nil

\* the loop body storing the value as it comes, false included
MergeStepStoresFalse(rel, key, val) ==
    [rel EXCEPT !.m = [k \in DOMAIN rel.m \cup {key} |->
                          IF k = key THEN val ELSE rel.m[k]]]

\* the loop body flipping the verb instead of setting it
MergeStepFlips(rel, key, val) ==
    IF val /\ key \notin DOMAIN rel.m
    THEN [rel EXCEPT !.m = [k \in DOMAIN rel.m \cup {key} |->
                               IF k = key THEN val ELSE rel.m[k]]]
    ELSE [rel EXCEPT !.m = [k \in DOMAIN rel.m \ {key} |-> rel.m[k]]]

MergeStep(rel, key, val) ==
    IF val
    THEN [rel EXCEPT !.m = [k \in DOMAIN rel.m \cup {key} |->
                               IF k = key THEN val ELSE rel.m[k]]]
    ELSE [rel EXCEPT !.m = [k \in DOMAIN rel.m \ {key} |-> rel.m[k]]]

\* for key, val := range *r, over the keys not yet visited
RECURSIVE MergeLoop(_, _, _)
MergeLoop(rel, r, keys) ==
    IF keys = {} THEN [panic |-> FALSE, rel |-> rel]
    ELSE LET key == CHOOSE k \in keys : TRUE
         IN IF MergeStepPanics(rel, key, r[key])
            THEN [panic |-> TRUE, rel |-> rel]
            ELSE MergeLoop(MergeStep(rel, key, r[key]), r, keys \ {key})

Merge(rel, r) == MergeLoop(rel, r, DOMAIN r)

-----------------------------------------------------------------------------
(* The callers' nodes *)

NodeA == Node("u", "1", "ann")
NodeB == Node("u", "2", "bob")
Nodes == {NodeA, NodeB}

\* the ordered pairs of distinct nodes
Pairs == {<<t, h>> \in Nodes \X Nodes : t # h}

\* the pair whose arc the callers write
Target == {<<NodeA, NodeB>>}

\* the key of the arc from tail to head
KeyOf(tail, head) ==
    GetMetaId(MakeArc(tail, head, NilRel, Options(0), 0))

\* the maps a caller passes as *r: a nil map ranges like an empty one
Deltas == VerbMaps

-----------------------------------------------------------------------------
(* The document store's operations, as package graph uses them *)

NoErr == "nil"
NotFound == "NotFound"
LockError == "LockError"
StoreError == "StoreError"

\* the document keys of the store
NodeIds == {"1", "2", "3"}
Keys == {"u:" \o i \o ">u:" \o j : i, j \in NodeIds}

\* no document under a key
NoDoc == [type |-> "(absent)"]

\* db.Upsert(doc, 0): create or replace the document of doc's key
Upsert(store, a) == [store EXCEPT ![GetMetaId(a)] = SetType(a)]

\* db.Get(doc): the stored document, NotFound when there is none
Get(store, a) ==
    LET k == GetMetaId(a)
    IN IF store[k] # NoDoc
       THEN [err |-> NoErr, doc |-> store[k]]
       ELSE [err |-> NotFound, doc |-> a]

\* db.GetLock(doc) can take the lock of doc's key
CanLock(locks, k) == locks[k] = NoProc

\* db.GetLock(doc): doc filled with the stored document, left as it is when
\* the key holds none
LockedRead(store, a) ==
    LET k == GetMetaId(a)
    IN IF store[k] # NoDoc THEN store[k] ELSE a

SetLock(locks, k, p) == [locks EXCEPT ![k] = p]

Holder(locks, k) == locks[k]

\* db.WriteUnlock(doc, lock, 0): write the document and release the lock
WriteUnlock(store, a) == Upsert(store, a)

-----------------------------------------------------------------------------
(* The callers *)

NoOp == "none"
ZeroArc == MakeArc(ZeroNode, ZeroNode, NilRel, Options(0), 0)
ZeroLoc == [tail |-> ZeroNode, head |-> ZeroNode, r |-> EmptyMap,
            la |-> ZeroArc, la0 |-> ZeroArc]
ZeroRet == [op |-> NoOp, err |-> NoErr, r |-> NilRel]

Return(p, op, err, r) == ret' = [ret EXCEPT ![p] = [op |-> op, err |-> err, r |-> r]]

\* the upsert merging the caller's map into the stored map instead of
\* replacing it
CreateArcMerges(p, tail, head, r, opts) ==
    /\ pc[p] = "idle"
    /\ LET k == KeyOf(tail, head)
           old == IF db[k] = NoDoc THEN EmptyMap ELSE db[k].relation.m
           new == [v \in DOMAIN old \cup DOMAIN r.m |->
                      IF v \in DOMAIN r.m THEN r.m[v] ELSE old[v]]
           a == MakeArc(tail, head, MakeRel(new), opts, now)
       IN db' = Upsert(db, a)
    /\ UNCHANGED loc
    /\ Return(p, "CreateArc", NoErr, NilRel)
    /\ UNCHANGED <<lock, pc, now, prior, plan, keyIn, keyOut, qvars>>

\* CreateArc (graph.go 118-132): build the arc, stamp it, upsert it
CreateArcOk(p, tail, head, r, opts) ==
    /\ pc[p] = "idle"
    /\ LET a == MakeArc(tail, head, r, opts, now)
       IN db' = Upsert(db, a)
    /\ UNCHANGED loc
    /\ Return(p, "CreateArc", NoErr, NilRel)
    /\ UNCHANGED <<lock, pc, now, prior, plan, keyIn, keyOut, qvars>>

\* CreateArc when db.Upsert fails
CreateArcErr(p, tail, head, r, opts) ==
    /\ pc[p] = "idle"
    /\ UNCHANGED loc
    /\ Return(p, "CreateArc", StoreError, NilRel)
    /\ UNCHANGED <<db, lock, pc, now, prior, plan, keyIn, keyOut, qvars>>

\* GetRelation (graph.go 135-142): the values it returns on this store
GetRelationOf(store, tail, head) ==
    LET a == MakeArc(Node(tail.type, tail.id, ""), Node(head.type, head.id, ""),
                     NilRel, Options(0), 0)
        g == Get(store, a)
    IN [err |-> g.err, r |-> IF g.err = NoErr THEN g.doc.relation ELSE NilRel]

GetRelation(p, tail, head) ==
    /\ pc[p] = "idle"
    /\ Return(p, "GetRelation", GetRelationOf(db, tail, head).err,
              GetRelationOf(db, tail, head).r)
    /\ UNCHANGED <<db, lock, pc, loc, now, prior, plan, keyIn, keyOut, qvars>>

\* GetRelation when db.Get fails for another reason than NotFound
GetRelationErr(p, tail, head) ==
    /\ pc[p] = "idle"
    /\ Return(p, "GetRelation", StoreError, NilRel)
    /\ UNCHANGED <<db, lock, pc, loc, now, prior, plan, keyIn, keyOut, qvars>>

\* the read done without waiting for the lock of the key
URGetLockUnguarded(p, tail, head, r) ==
    /\ pc[p] = "idle"
    /\ LET la == MakeArc(Node(tail.type, tail.id, ""), Node(head.type, head.id, ""),
                         NilRel, Options(0), 0)
           rd == LockedRead(db, la)
       IN /\ lock' = SetLock(lock, GetMetaId(la), p)
          /\ loc' = [loc EXCEPT ![p] = [tail |-> tail, head |-> head, r |-> r,
                                        la |-> rd, la0 |-> rd]]
    /\ pc' = [pc EXCEPT ![p] = "merge"]
    /\ UNCHANGED <<db, ret, now, prior, plan, keyIn, keyOut, qvars>>

\* the read done with a plain read, taking no lock
URGetLockReadsOnly(p, tail, head, r) ==
    /\ pc[p] = "idle"
    /\ LET la == MakeArc(Node(tail.type, tail.id, ""), Node(head.type, head.id, ""),
                         NilRel, Options(0), 0)
           rd == LockedRead(db, la)
       IN loc' = [loc EXCEPT ![p] = [tail |-> tail, head |-> head, r |-> r,
                                     la |-> rd, la0 |-> rd]]
    /\ pc' = [pc EXCEPT ![p] = "merge"]
    /\ UNCHANGED <<db, lock, ret, now, prior, plan, keyIn, keyOut, qvars>>

\* UpdateRelation, the read (graph.go 148-153): db.GetLock succeeds
URGetLock(p, tail, head, r) ==
    /\ pc[p] = "idle"
    /\ LET la == MakeArc(Node(tail.type, tail.id, ""), Node(head.type, head.id, ""),
                         NilRel, Options(0), 0)
           k == GetMetaId(la)
           rd == LockedRead(db, la)
       IN /\ CanLock(lock, k)
          /\ lock' = SetLock(lock, k, p)
          /\ loc' = [loc EXCEPT ![p] = [tail |-> tail, head |-> head, r |-> r,
                                        la |-> rd, la0 |-> rd]]
    /\ pc' = [pc EXCEPT ![p] = "merge"]
    /\ UNCHANGED <<db, ret, now, prior, plan, keyIn, keyOut, qvars>>

\* UpdateRelation when db.GetLock fails (graph.go 151-153)
URGetLockErr(p, tail, head, r) ==
    /\ pc[p] = "idle"
    /\ UNCHANGED loc
    /\ Return(p, "UpdateRelation", LockError, NilRel)
    /\ UNCHANGED <<db, lock, pc, now, prior, plan, keyIn, keyOut, qvars>>

\* the update replacing the relation map by the caller's map
URMergeOverwrites(p) ==
    /\ pc[p] = "merge"
    /\ LET la1 == [loc[p].la EXCEPT !.tail = loc[p].tail, !.head = loc[p].head]
       IN /\ loc' = [loc EXCEPT ![p].la = [la1 EXCEPT !.relation = MakeRel(loc[p].r)]]
          /\ pc' = [pc EXCEPT ![p] = "write"]
    /\ UNCHANGED <<db, lock, ret, now, prior, plan, keyIn, keyOut, qvars>>

\* the merge done on the stored document, one verb at a time, instead of on
\* the private copy
URMergeInPlace(p) ==
    /\ pc[p] = "merge"
    /\ LET la1 == [loc[p].la EXCEPT !.tail = loc[p].tail, !.head = loc[p].head]
           mg == Merge(la1.relation, loc[p].r)
           key == CHOOSE k \in DOMAIN loc[p].r : TRUE
       IN /\ loc' = [loc EXCEPT ![p].la = [la1 EXCEPT !.relation = mg.rel]]
          /\ pc' = [pc EXCEPT ![p] = IF mg.panic THEN "panic" ELSE "write"]
          /\ db' = IF mg.panic \/ DOMAIN loc[p].r = {}
                   THEN db
                   ELSE Upsert(db, [la1 EXCEPT !.relation =
                                       MergeStep(la1.relation, key, loc[p].r[key])])
    /\ UNCHANGED <<lock, ret, now, prior, plan, keyIn, keyOut, qvars>>

\* UpdateRelation, the update (graph.go 155-166): the merge ends or panics
URMerge(p) ==
    /\ pc[p] = "merge"
    /\ LET la1 == [loc[p].la EXCEPT !.tail = loc[p].tail, !.head = loc[p].head]
           mg == Merge(la1.relation, loc[p].r)
       IN /\ loc' = [loc EXCEPT ![p].la = [la1 EXCEPT !.relation = mg.rel]]
          /\ pc' = [pc EXCEPT ![p] = IF mg.panic THEN "panic" ELSE "write"]
    /\ UNCHANGED <<db, lock, ret, now, prior, plan, keyIn, keyOut, qvars>>

\* UpdateRelation, the write (graph.go 168-173): db.WriteUnlock succeeds
URWriteUnlock(p) ==
    /\ pc[p] = "write"
    /\ db' = WriteUnlock(db, loc[p].la)
    /\ lock' = SetLock(lock, GetMetaId(loc[p].la), NoProc)
    /\ pc' = [pc EXCEPT ![p] = "idle"]
    /\ loc' = [loc EXCEPT ![p] = ZeroLoc]
    /\ Return(p, "UpdateRelation", NoErr, NilRel)
    /\ UNCHANGED <<now, prior, plan, keyIn, keyOut, qvars>>

\* the failed write leaving the merged copy in the store all the same
URWriteUnlockErrWrites(p, released) ==
    /\ pc[p] = "write"
    /\ db' = WriteUnlock(db, loc[p].la)
    /\ lock' = IF released THEN SetLock(lock, GetMetaId(loc[p].la), NoProc) ELSE lock
    /\ pc' = [pc EXCEPT ![p] = "idle"]
    /\ loc' = [loc EXCEPT ![p] = ZeroLoc]
    /\ Return(p, "UpdateRelation", StoreError, NilRel)
    /\ UNCHANGED <<now, prior, plan, keyIn, keyOut, qvars>>

\* UpdateRelation when db.WriteUnlock fails: nothing is written, and the
\* store has released the lock or still holds it
URWriteUnlockErr(p, released) ==
    /\ pc[p] = "write"
    /\ lock' = IF released THEN SetLock(lock, GetMetaId(loc[p].la), NoProc) ELSE lock
    /\ pc' = [pc EXCEPT ![p] = "idle"]
    /\ loc' = [loc EXCEPT ![p] = ZeroLoc]
    /\ Return(p, "UpdateRelation", StoreError, NilRel)
    /\ UNCHANGED <<db, now, prior, plan, keyIn, keyOut, qvars>>

-----------------------------------------------------------------------------
(* Two callers of UpdateRelation on one pair, and a reader *)

NoKey == "(none)"
NoKeyIn == <<"", "", "", "">>

\* type NodeQueryResult
NodeQueryResult(results, nextOffset, prevOffset) ==
    [results |-> results, nextOffset |-> nextOffset, prevOffset |-> prevOffset]

ZeroQueryResult == NodeQueryResult(<<>>, "", "")
ZeroScen == [dir |-> "none", node |-> ZeroNode, verb |-> FOLLOW, limit |-> 1]
ZeroPg == [qr |-> ZeroQueryResult, size |-> 0, err |-> NoErr, calls |-> 0,
           pages |-> <<>>, done |-> FALSE]
ZeroFe == [pc |-> "idle", size |-> 0, offset |-> 0, calls |-> 0, log |-> <<>>]
ZeroDeg == [called |-> FALSE, count |-> 0, err |-> NoErr]

InitNoQuery ==
    /\ scen = ZeroScen
    /\ pg = ZeroPg
    /\ fe = ZeroFe
    /\ deg = ZeroDeg
EmptyStore == [k \in Keys |-> NoDoc]
NoLocks == [k \in Keys |-> NoProc]

\* the documents CreateArc(tail, head, r, opts) leaves in the store
Created(tail, head) ==
    {SetType(MakeArc(tail, head, r, Options(0), 1)) : r \in Relations}

InitCallers ==
    /\ lock = NoLocks
    /\ pc = [p \in AllProcs |-> "idle"]
    /\ loc = [p \in AllProcs |-> ZeroLoc]
    /\ ret = [p \in AllProcs |-> ZeroRet]
    /\ now = 1
    /\ keyIn = NoKeyIn
    /\ keyOut = NoKey
    /\ InitNoQuery

\* the pair has no arc, or one that CreateArc wrote
Init ==
    /\ \E d \in {NoDoc} \cup Created(NodeA, NodeB) :
          db = [EmptyStore EXCEPT ![KeyOf(NodeA, NodeB)] = d]
    /\ prior = db
    /\ plan \in [Procs -> Deltas]
    /\ InitCallers

\* each caller calls UpdateRelation(A, B, plan) once
Next ==
    \/ \E p \in Procs : ret[p].op = NoOp /\ URGetLock(p, NodeA, NodeB, plan[p])
    \/ \E p \in Procs : ret[p].op = NoOp /\ URGetLockErr(p, NodeA, NodeB, plan[p])
    \/ \E p \in Procs : URMerge(p)
    \/ \E p \in Procs : URWriteUnlock(p)
    \/ \E p \in Procs, released \in BOOLEAN : URWriteUnlockErr(p, released)
    \/ \E p \in Readers, th \in Pairs : GetRelation(p, th[1], th[2])
    \/ \E p \in Readers, th \in Pairs : GetRelationErr(p, th[1], th[2])

Spec == Init /\ [][Next]_vars

\* the callers and the store keep running: a step that can be taken is taken
SpecFair == Spec /\ WF_vars(Next)

-----------------------------------------------------------------------------
(* Callers of CreateArc and UpdateRelation on an empty store *)

InitCreate ==
    /\ db = EmptyStore
    /\ prior = EmptyStore
    /\ plan = [p \in Procs |-> EmptyMap]
    /\ InitCallers

NextCreate ==
    \/ \E p \in Procs, th \in Target, r \in Relations :
          CreateArcOk(p, th[1], th[2], r, Options(0))
    \/ \E p \in Procs, th \in Target :
          CreateArcErr(p, th[1], th[2], NilRel, Options(0))
    \/ \E p \in Procs, th \in Target, r \in Deltas : URGetLock(p, th[1], th[2], r)
    \/ \E p \in Procs, th \in Target : URGetLockErr(p, th[1], th[2], EmptyMap)
    \/ \E p \in Procs : URMerge(p)
    \/ \E p \in Procs : URWriteUnlock(p)
    \/ \E p \in Procs, released \in BOOLEAN : URWriteUnlockErr(p, released)

SpecCreate == InitCreate /\ [][NextCreate]_vars

-----------------------------------------------------------------------------
(* Callers of CreateArc and UpdateRelation on one pair while the clock runs *)

\* the clock advances
Tick ==
    /\ now < MaxNow
    /\ now' = now + 1
    /\ UNCHANGED <<db, lock, pc, loc, ret, prior, plan, keyIn, keyOut, qvars>>

InitStamp ==
    /\ \E d \in {NoDoc} \cup Created(NodeA, NodeB) :
          db = [EmptyStore EXCEPT ![KeyOf(NodeA, NodeB)] = d]
    /\ prior = db
    /\ plan \in [Procs -> Deltas]
    /\ InitCallers

\* each caller calls CreateArc(A, B, plan) or UpdateRelation(A, B, plan) once
NextStamp ==
    \/ Tick
    \/ \E p \in Procs :
          ret[p].op = NoOp /\ CreateArcOk(p, NodeA, NodeB, MakeRel(plan[p]), Options(0))
    \/ \E p \in Procs :
          ret[p].op = NoOp /\ CreateArcErr(p, NodeA, NodeB, MakeRel(plan[p]), Options(0))
    \/ \E p \in Procs : ret[p].op = NoOp /\ URGetLock(p, NodeA, NodeB, plan[p])
    \/ \E p \in Procs : ret[p].op = NoOp /\ URGetLockErr(p, NodeA, NodeB, plan[p])
    \/ \E p \in Procs : URMerge(p)
    \/ \E p \in Procs : URWriteUnlock(p)
    \/ \E p \in Procs, released \in BOOLEAN : URWriteUnlockErr(p, released)

SpecStamp == InitStamp /\ [][NextStamp]_vars

-----------------------------------------------------------------------------
(* The key derivation on its own *)

\* the characters of type and id strings: a letter and the key's separators
Alphabet == {"a", ":", ">"}

RECURSIVE StringsOfLen(_)
StringsOfLen(n) ==
    IF n = 0 THEN {""}
    ELSE {s \o c : s \in StringsOfLen(n - 1), c \in Alphabet}

Strings == UNION {StringsOfLen(n) : n \in 0..MaxStrLen}

\* <<tail.type, tail.id, head.type, head.id>>
KeyInputs == Strings \X Strings \X Strings \X Strings

ArcOfInput(x) ==
    MakeArc(Node(x[1], x[2], ""), Node(x[3], x[4], ""), NilRel, Options(0), 0)

\* a caller asks for the key of an arc
DeriveKey ==
    /\ keyOut = NoKey
    /\ keyOut' = GetMetaId(ArcOfInput(keyIn))
    /\ UNCHANGED <<db, lock, pc, loc, ret, now, prior, plan, keyIn, qvars>>

InitKey ==
    /\ db = EmptyStore
    /\ prior = EmptyStore
    /\ plan = [p \in Procs |-> EmptyMap]
    /\ lock = NoLocks
    /\ pc = [p \in AllProcs |-> "idle"]
    /\ loc = [p \in AllProcs |-> ZeroLoc]
    /\ ret = [p \in AllProcs |-> ZeroRet]
    /\ now = 1
    /\ keyIn \in KeyInputs
    /\ keyOut = NoKey
    /\ InitNoQuery

NextKey == DeriveKey

SpecKey == InitKey /\ [][NextKey]_vars

-----------------------------------------------------------------------------
(* The traversal queries *)

Min(a, b) == IF a < b THEN a ELSE b

\* fmt.Sprintf("%d", n) and the caller's parse of it
Digits == <<"0", "1", "2", "3", "4", "5", "6", "7", "8", "9">>

RECURSIVE FormatInt(_)
FormatInt(n) ==
    IF n < 10 THEN Digits[n + 1]
    ELSE FormatInt(n \div 10) \o Digits[(n % 10) + 1]

ParseInt(str) == CHOOSE n \in 0..99 : FormatInt(n) = str

\* the order of ORDER BY on a name: a missing name first
NameOrder == <<"", "ann", "bob", "hub">>
NameRank(name) == CHOOSE i \in 1..Len(NameOrder) : NameOrder[i] = name

\* the other endpoint of an arc, the one a query projects
Other(fixed) == IF fixed = "head" THEN "tail" ELSE "head"

\* WHERE type="arc" AND <fixed>.type=.. AND <fixed>.id=.. AND relation.<r>=true
Selected(store, fixed, node, r) ==
    {k \in Keys :
        /\ store[k] # NoDoc
        /\ store[k].type = OBJ_ARC
        /\ store[k][fixed].type = node.type
        /\ store[k][fixed].id = node.id
        /\ r \in DOMAIN store[k].relation.m
        /\ store[k].relation.m[r]}

\* the orders in which the store can return the selected documents: any
\* order, and with ORDER BY <projected>.name any order ascending by name
RowOrders(store, S, fixed, ordered) ==
    {s \in [1..Cardinality(S) -> S] :
        /\ \A i, j \in 1..Cardinality(S) : i # j => s[i] # s[j]
        /\ ordered =>
              \A i, j \in 1..Cardinality(S) :
                  i < j => NameRank(store[s[i]][Other(fixed)].name)
                             <= NameRank(store[s[j]][Other(fixed)].name)}

\* db.ExecPagedQuery: the rows of one page, projected (SELECT tail.* / head.*)
PageRows(store, order, fixed, limit, offset) ==
    [i \in 1..(Min(offset + limit, Len(order)) - Min(offset, Len(order))) |->
        store[order[Min(offset, Len(order)) + i]][Other(fixed)]]

\* the page advancing the offset by the limit asked for, not by the rows got
QueryDoneByLimit(fixed, rows, limit, offset) ==
    /\ pg' = [pg EXCEPT
                !.qr = NodeQueryResult(rows, FormatInt(offset + limit),
                                       FormatInt(offset)),
                !.size = Len(rows),
                !.err = NoErr,
                !.calls = @ + 1,
                !.pages = @ \o rows,
                !.done = Len(rows) < limit]
    /\ UNCHANGED <<db, lock, pc, loc, ret, now, prior, plan, keyIn, keyOut,
                   scen, fe, deg>>

\* QueryTails / QueryHeads (graph.go 195-210, 213-228) after a successful
\* db.ExecPagedQuery that returned rows
QueryDone(fixed, rows, limit, offset) ==
    /\ pg' = [pg EXCEPT
                !.qr = NodeQueryResult(rows, FormatInt(offset + Len(rows)),
                                       FormatInt(offset)),
                !.size = Len(rows),
                !.err = NoErr,
                !.calls = @ + 1,
                !.pages = @ \o rows,
                !.done = Len(rows) < limit]
    /\ UNCHANGED <<db, lock, pc, loc, ret, now, prior, plan, keyIn, keyOut,
                   scen, fe, deg>>

\* QueryTails / QueryHeads when db.ExecPagedQuery fails (graph.go 201-203)
QueryFailed ==
    /\ pg' = [pg EXCEPT !.size = 0, !.err = StoreError, !.calls = @ + 1,
                        !.done = TRUE]
    /\ UNCHANGED <<db, lock, pc, loc, ret, now, prior, plan, keyIn, keyOut,
                   scen, fe, deg>>

\* (qr *NodeQueryResult) QueryTails(head, r, limit, offset)
QueryTails(head, r, limit, offset) ==
    \E order \in RowOrders(db, Selected(db, "head", head, r), "head", TRUE) :
        QueryDone("head", PageRows(db, order, "head", limit, offset), limit, offset)

QueryTailsErr(head, r, limit, offset) == QueryFailed

\* (qr *NodeQueryResult) QueryHeads(tail, r, limit, offset)
QueryHeads(tail, r, limit, offset) ==
    \E order \in RowOrders(db, Selected(db, "tail", tail, r), "tail", TRUE) :
        QueryDone("tail", PageRows(db, order, "tail", limit, offset), limit, offset)

QueryHeadsErr(tail, r, limit, offset) == QueryFailed

\* the count taken over every arc at the fixed endpoint, whatever its verbs
CountDoneAnyVerb(fixed, node, r) ==
    /\ deg' = [called |-> TRUE,
               count |-> Cardinality({k \in Keys :
                                        /\ db[k] # NoDoc
                                        /\ db[k][fixed].type = node.type
                                        /\ db[k][fixed].id = node.id}),
               err |-> NoErr]
    /\ UNCHANGED <<db, lock, pc, loc, ret, now, prior, plan, keyIn, keyOut,
                   scen, pg, fe>>

\* db.ExecCount on the same filter
CountDone(fixed, node, r) ==
    /\ deg' = [called |-> TRUE, count |-> Cardinality(Selected(db, fixed, node, r)),
               err |-> NoErr]
    /\ UNCHANGED <<db, lock, pc, loc, ret, now, prior, plan, keyIn, keyOut,
                   scen, pg, fe>>

CountFailed ==
    /\ deg' = [called |-> TRUE, count |-> 0, err |-> StoreError]
    /\ UNCHANGED <<db, lock, pc, loc, ret, now, prior, plan, keyIn, keyOut,
                   scen, pg, fe>>

\* Indegree (graph.go 231-243)
Indegree(head, r) == CountDone("head", head, r)
IndegreeErr(head, r) == CountFailed

\* Outdegree (graph.go 246-258)
Outdegree(tail, r) == CountDone("tail", tail, r)
OutdegreeErr(tail, r) == CountFailed

\* ForEachTail / ForEachHead up to the loop (graph.go 262-269, 286-293)
ForEachStart ==
    /\ fe.pc = "idle"
    /\ fe' = [pc |-> "loop", size |-> QUERY_LIMIT_MAX, offset |-> 0, calls |-> 0,
              log |-> <<>>]
    /\ UNCHANGED <<db, lock, pc, loc, ret, now, prior, plan, keyIn, keyOut,
                   scen, pg, deg>>

\* the loop going on until a round returns no row at all
ForEachRoundUntilEmpty(fixed, node, r) ==
    /\ fe.pc = "loop"
    /\ \E order \in RowOrders(db, Selected(db, fixed, node, r), fixed, FALSE) :
          LET rows == PageRows(db, order, fixed, QUERY_LIMIT_MAX, fe.offset)
          IN fe' = [pc |-> IF Len(rows) > 0 THEN "loop" ELSE "done",
                    size |-> Len(rows),
                    offset |-> fe.offset + Len(rows),
                    calls |-> fe.calls + 1,
                    log |-> fe.log \o rows]
    /\ UNCHANGED <<db, lock, pc, loc, ret, now, prior, plan, keyIn, keyOut,
                   scen, pg, deg>>

\* one round of the loop (graph.go 270-281, 294-305): the paged query, with
\* no ORDER BY, then cb on each row, then the offset advanced
ForEachRound(fixed, node, r) ==
    /\ fe.pc = "loop"
    /\ fe.size = QUERY_LIMIT_MAX
    /\ \E order \in RowOrders(db, Selected(db, fixed, node, r), fixed, FALSE) :
          LET rows == PageRows(db, order, fixed, fe.size, fe.offset)
          IN fe' = [pc |-> IF Len(rows) = QUERY_LIMIT_MAX THEN "loop" ELSE "done",
                    size |-> Len(rows),
                    offset |-> fe.offset + Len(rows),
                    calls |-> fe.calls + 1,
                    log |-> fe.log \o rows]
    /\ UNCHANGED <<db, lock, pc, loc, ret, now, prior, plan, keyIn, keyOut,
                   scen, pg, deg>>

\* the error looked at only after the callbacks of the round
ForEachRoundErrCallsBack(fixed, node, r) ==
    /\ fe.pc = "loop"
    /\ fe.size = QUERY_LIMIT_MAX
    /\ \E order \in RowOrders(db, Selected(db, fixed, node, r), fixed, FALSE) :
          LET rows == PageRows(db, order, fixed, fe.size, fe.offset)
          IN fe' = [fe EXCEPT !.pc = "failed", !.calls = @ + 1,
                              !.log = @ \o rows]
    /\ UNCHANGED <<db, lock, pc, loc, ret, now, prior, plan, keyIn, keyOut,
                   scen, pg, deg>>

\* a round whose paged query fails: the function returns (graph.go 273-275)
ForEachRoundErr ==
    /\ fe.pc = "loop"
    /\ fe.size = QUERY_LIMIT_MAX
    /\ fe' = [fe EXCEPT !.pc = "failed", !.calls = @ + 1]
    /\ UNCHANGED <<db, lock, pc, loc, ret, now, prior, plan, keyIn, keyOut,
                   scen, pg, deg>>

ForEachTailErrCallsBack(head, r) == ForEachRoundErrCallsBack("head", head, r)

\* ForEachTail (graph.go 261-282)
ForEachTail(head, r) == ForEachStart
ForEachTailRound(head, r) == ForEachRound("head", head, r)
ForEachTailErr(head, r) == ForEachRoundErr

\* ForEachHead (graph.go 285-306)
ForEachHead(tail, r) == ForEachStart
ForEachHeadRound(tail, r) == ForEachRound("tail", tail, r)
ForEachHeadErr(tail, r) == ForEachRoundErr

-----------------------------------------------------------------------------
(* Traversals of a store that no caller changes *)

Hub == Node("u", "3", "hub")
Spokes == {"1", "2", "3"}
SpokeNames == {"ann", "bob"}

\* relation maps of the arcs: one with follow, one without
SpokeRels == {MakeRel(FOLLOW :> TRUE), MakeRel((FOLLOW :> FALSE) @@ (LIKE :> TRUE))}

\* the arc between the hub and spoke i that CreateArc or UpdateRelation wrote
SpokeArc(fixed, i, name, rel) ==
    IF fixed = "head"
    THEN SetType(MakeArc(Node("u", i, name), Hub, rel, Options(0), 1))
    ELSE SetType(MakeArc(Hub, Node("u", i, name), rel, Options(0), 1))

SpokeKey(fixed, i) == GetMetaId(SpokeArc(fixed, i, "", NilRel))

\* the stores holding arcs into the hub (fixed = "head") or out of it
HubStores(fixed) ==
    {[k \in Keys |->
        IF \E i \in Spokes : k = SpokeKey(fixed, i) /\ f[i] # NoDoc
        THEN LET i == CHOOSE i \in Spokes : k = SpokeKey(fixed, i)
             IN SpokeArc(fixed, i, f[i][1], f[i][2])
        ELSE NoDoc] :
     f \in [Spokes -> {NoDoc} \cup (SpokeNames \X SpokeRels)]}

InitQuery ==
    /\ \E dir \in {"tails", "heads"}, v \in {FOLLOW}, limit \in 1..MaxLimit :
          /\ scen = [dir |-> dir, node |-> Hub, verb |-> v, limit |-> limit]
          /\ db \in HubStores(IF dir = "tails" THEN "head" ELSE "tail")
    /\ prior = db
    /\ plan = [p \in Procs |-> EmptyMap]
    /\ lock = NoLocks
    /\ pc = [p \in AllProcs |-> "idle"]
    /\ loc = [p \in AllProcs |-> ZeroLoc]
    /\ ret = [p \in AllProcs |-> ZeroRet]
    /\ now = 1
    /\ keyIn = NoKeyIn
    /\ keyOut = NoKey
    /\ pg = ZeroPg
    /\ fe = ZeroFe
    /\ deg = ZeroDeg

\* the offset the paging caller passes: 0, then the NextOffset it got
NextPageOffset == IF pg.calls = 0 THEN 0 ELSE ParseInt(pg.qr.nextOffset)

NextQuery ==
    \/ /\ scen.dir = "tails" /\ ~pg.done
       /\ QueryTails(scen.node, scen.verb, scen.limit, NextPageOffset)
    \/ /\ scen.dir = "tails" /\ ~pg.done
       /\ QueryTailsErr(scen.node, scen.verb, scen.limit, NextPageOffset)
    \/ /\ scen.dir = "heads" /\ ~pg.done
       /\ QueryHeads(scen.node, scen.verb, scen.limit, NextPageOffset)
    \/ /\ scen.dir = "heads" /\ ~pg.done
       /\ QueryHeadsErr(scen.node, scen.verb, scen.limit, NextPageOffset)
    \/ scen.dir = "tails" /\ ~deg.called /\ Indegree(scen.node, scen.verb)
    \/ scen.dir = "tails" /\ ~deg.called /\ IndegreeErr(scen.node, scen.verb)
    \/ scen.dir = "heads" /\ ~deg.called /\ Outdegree(scen.node, scen.verb)
    \/ scen.dir = "heads" /\ ~deg.called /\ OutdegreeErr(scen.node, scen.verb)
    \/ scen.dir = "tails" /\ ForEachTail(scen.node, scen.verb)
    \/ scen.dir = "tails" /\ ForEachTailRound(scen.node, scen.verb)
    \/ scen.dir = "tails" /\ ForEachTailErr(scen.node, scen.verb)
    \/ scen.dir = "heads" /\ ForEachHead(scen.node, scen.verb)
    \/ scen.dir = "heads" /\ ForEachHeadRound(scen.node, scen.verb)
    \/ scen.dir = "heads" /\ ForEachHeadErr(scen.node, scen.verb)

SpecQuery == InitQuery /\ [][NextQuery]_vars

-----------------------------------------------------------------------------
(* Two calls of UpdateRelation around one node, and counts between the calls *)

\* the maps the callers pass: the queried verb set or cleared
CountDeltas == {FOLLOW :> TRUE, FOLLOW :> FALSE}

\* the spokes whose arcs the callers update
Updated == {"1", "2"}

\* the (tail, head) arguments for spoke i
SpokePair(fixed, i) ==
    IF fixed = "head" THEN <<Node("u", i, "ann"), Hub>>
    ELSE <<Hub, Node("u", i, "ann")>>

\* no call of UpdateRelation is under way
Quiescent == \A p \in Procs : pc[p] \in {"idle", "panic"}

InitCount ==
    /\ \E dir \in {"tails", "heads"} :
          /\ scen = [dir |-> dir, node |-> Hub, verb |-> FOLLOW, limit |-> MaxLimit]
          /\ db \in HubStores(IF dir = "tails" THEN "head" ELSE "tail")
    /\ prior = db
    /\ plan = [p \in Procs |-> EmptyMap]
    /\ lock = NoLocks
    /\ pc = [p \in AllProcs |-> "idle"]
    /\ loc = [p \in AllProcs |-> ZeroLoc]
    /\ ret = [p \in AllProcs |-> ZeroRet]
    /\ now = 1
    /\ keyIn = NoKeyIn
    /\ keyOut = NoKey
    /\ pg = ZeroPg
    /\ fe = ZeroFe
    /\ deg = ZeroDeg

NextCount ==
    \/ \E p \in Procs, i \in Updated, r \in CountDeltas :
          LET th == SpokePair(IF scen.dir = "tails" THEN "head" ELSE "tail", i)
          IN ret[p].op = NoOp /\ URGetLock(p, th[1], th[2], r)
    \/ \E p \in Procs : ret[p].op = NoOp /\ URGetLockErr(p, Hub, Hub, EmptyMap)
    \/ \E p \in Procs : URMerge(p)
    \/ \E p \in Procs : URWriteUnlock(p)
    \/ \E p \in Procs, released \in BOOLEAN : URWriteUnlockErr(p, released)
    \/ Quiescent /\ scen.dir = "tails" /\ Indegree(scen.node, scen.verb)
    \/ Quiescent /\ scen.dir = "tails" /\ IndegreeErr(scen.node, scen.verb)
    \/ Quiescent /\ scen.dir = "heads" /\ Outdegree(scen.node, scen.verb)
    \/ Quiescent /\ scen.dir = "heads" /\ OutdegreeErr(scen.node, scen.verb)
    \/ /\ Quiescent /\ scen.dir = "tails" /\ pg.calls = 0
       /\ QueryTails(scen.node, scen.verb, scen.limit, 0)
    \/ /\ Quiescent /\ scen.dir = "heads" /\ pg.calls = 0
       /\ QueryHeads(scen.node, scen.verb, scen.limit, 0)

SpecCount == InitCount /\ [][NextCount]_vars

-----------------------------------------------------------------------------
(* What the claims speak of *)

AB == KeyOf(NodeA, NodeB)
BA == KeyOf(NodeB, NodeA)

\* the relation map of a stored document, empty when there is none
RelMap(d) == IF d = NoDoc THEN EmptyMap ELSE d.relation.m

\* the verbs a map sets and the verbs it clears
TrueVerbs(d) == {v \in DOMAIN d : d[v]}
FalseVerbs(d) == {v \in DOMAIN d : ~d[v]}

\* (R minus the verbs D maps to false) union (the verbs D maps to true)
Applied(R, D) ==
    [v \in (DOMAIN R \ FalseVerbs(D)) \cup TrueVerbs(D) |->
        IF v \in TrueVerbs(D) THEN TRUE ELSE R[v]]

\* caller p's UpdateRelation has returned without error
Done(p) == pc[p] = "idle" /\ ret[p].op = "UpdateRelation" /\ ret[p].err = NoErr

\* caller p has called UpdateRelation
Started(p) == pc[p] # "idle" \/ ret[p].op # NoOp

\* this step is caller p's successful db.WriteUnlock
Writes(p) == pc[p] = "write" /\ pc'[p] = "idle" /\ ret'[p].err = NoErr

\* C1: when two UpdateRelation calls on the same pair with disjoint maps have
\* both returned without error, the stored relation set is the prior set with
\* both maps applied one after the other: no call's effect is missing.
NoLostUpdates ==
    \A p, q \in Procs :
        (p # q /\ Done(p) /\ Done(q) /\ DOMAIN plan[p] \cap DOMAIN plan[q] = {})
        => RelMap(db[AB]) = Applied(Applied(RelMap(prior[AB]), plan[p]), plan[q])

NoLostUpdatesWitness ==
    /\ Done("p1") /\ Done("p2")
    /\ plan["p1"] = (FOLLOW :> TRUE) /\ plan["p2"] = (LIKE :> FALSE)
    /\ RelMap(prior[AB]) = (LIKE :> TRUE)
    /\ RelMap(db[AB]) = (FOLLOW :> TRUE)

\* C2: a successful UpdateRelation(tail, head, D) on an arc holding R stores
\* (R minus the verbs D maps to false) union (the verbs D maps to true, as
\* true); a verb D does not mention keeps the presence and value it had.
MergeResult ==
    [][\A p \in Procs :
          Writes(p) =>
            LET R == RelMap(db[AB])
                D == loc[p].r
                S == RelMap(db'[AB])
            IN /\ db'[AB] # NoDoc
               /\ S = Applied(R, D)
               /\ \A v \in Verbs \ DOMAIN D :
                     /\ v \in DOMAIN S <=> v \in DOMAIN R
                     /\ v \in DOMAIN R => S[v] = R[v]]_vars

MergeResultWitness ==
    /\ Done("p1") /\ ~Started("p2")
    /\ plan["p1"] = (FOLLOW :> TRUE)
    /\ RelMap(prior[AB]) = (LIKE :> FALSE)
    /\ RelMap(db[AB]) = (FOLLOW :> TRUE) @@ (LIKE :> FALSE)

\* C4 as claimed: no document written back by UpdateRelation maps a verb to
\* false, whatever the arc held before.
NeverPersistsFalse ==
    [][\A p \in Procs :
          Writes(p) => \A v \in DOMAIN RelMap(db'[AB]) : RelMap(db'[AB])[v]]_vars

\* C4 as amended: a document written back by UpdateRelation maps a verb to
\* false only when the document read under the lock already did and the
\* caller's map does not mention the verb; the merge never stores false.
NeverAddsFalse ==
    [][\A p \in Procs :
          Writes(p) =>
            \A v \in DOMAIN RelMap(db'[AB]) :
                ~RelMap(db'[AB])[v] =>
                    /\ v \notin DOMAIN loc[p].r
                    /\ v \in DOMAIN RelMap(db[AB])
                    /\ ~RelMap(db[AB])[v]]_vars

NeverAddsFalseWitness ==
    /\ Done("p1") /\ ~Started("p2")
    /\ plan["p1"] = (FOLLOW :> FALSE)
    /\ RelMap(prior[AB]) = (FOLLOW :> TRUE) @@ (LIKE :> FALSE)
    /\ RelMap(db[AB]) = (LIKE :> FALSE)

\* caller p is the first to call UpdateRelation, on a pair without an arc
FirstOnFresh(p) ==
    /\ prior[AB] = NoDoc
    /\ Started(p)
    /\ \A q \in Procs \ {p} : ~Started(q)

\* caller p's call has ended, and not with an error of the store
Ended(p) ==
    \/ pc[p] = "panic"
    \/ pc[p] = "idle" /\ ret[p].op = "UpdateRelation" /\ ret[p].err = NoErr

\* C5 as claimed: on a pair without an arc UpdateRelation({v: true}) succeeds
\* and creates the arc with v, and a following UpdateRelation({v: false})
\* leaves a stored relation set without v.
MergeInverseFresh ==
    /\ [](\A v \in Verbs :
            (FirstOnFresh("p1") /\ plan["p1"] = (v :> TRUE) /\ Ended("p1"))
            => /\ Done("p1")
               /\ db[AB] # NoDoc
               /\ v \in TrueVerbs(RelMap(db[AB])))
    /\ [][\A v \in Verbs :
            (prior[AB] = NoDoc /\ plan["p1"] = (v :> TRUE) /\ Done("p1")
             /\ plan["p2"] = (v :> FALSE) /\ Writes("p2"))
            => v \notin DOMAIN RelMap(db'[AB])]_vars

\* C6: UpdateRelation({v: true}) applied a second time, right after a first,
\* leaves the stored relation set as the first application left it.
MergeIdempotent ==
    [][\A p, q \in Procs, v \in Verbs :
          (p # q /\ Done(q) /\ plan[q] = (v :> TRUE) /\ plan[p] = (v :> TRUE)
           /\ Writes(p))
          => RelMap(db'[AB]) = RelMap(db[AB])]_vars

MergeIdempotentWitness ==
    /\ Done("p1") /\ Done("p2")
    /\ plan["p1"] = (LIKE :> TRUE) /\ plan["p2"] = (LIKE :> TRUE)
    /\ RelMap(prior[AB]) = (FOLLOW :> TRUE)
    /\ RelMap(db[AB]) = (FOLLOW :> TRUE) @@ (LIKE :> TRUE)

\* C3 as claimed: on a store without an arc between A and B,
\* UpdateRelation(A, B, {follow: true}) succeeds, after which
\* GetRelation(A, B) holds follow and GetRelation(B, A) fails with NotFound;
\* no step of UpdateRelation on (A, B) touches the document of (B, A).
Directionality ==
    /\ [](\A p \in Procs :
            (FirstOnFresh(p) /\ plan[p] = (FOLLOW :> TRUE) /\ Ended(p))
            => /\ Done(p)
               /\ GetRelationOf(db, NodeA, NodeB).err = NoErr
               /\ FOLLOW \in TrueVerbs(GetRelationOf(db, NodeA, NodeB).r.m)
               /\ GetRelationOf(db, NodeB, NodeA).err = NotFound)
    /\ [][db'[BA] = db[BA]]_vars

\* C7 as claimed: the key is injective over all strings: no other endpoint
\* tuple has the key of this one, and the reversed arc of two different
\* nodes has another key.
KeyInjective ==
    keyOut # NoKey =>
        /\ \A y \in KeyInputs : GetMetaId(ArcOfInput(y)) = keyOut => y = keyIn
        /\ <<keyIn[1], keyIn[2]>> # <<keyIn[3], keyIn[4]>>
             => GetMetaId(ArcOfInput(<<keyIn[3], keyIn[4], keyIn[1], keyIn[2]>>)) # keyOut

\* this step is caller p's successful CreateArc
Creates(p) ==
    /\ pc[p] = "idle" /\ pc'[p] = "idle"
    /\ ret'[p].op = "CreateArc" /\ ret'[p].err = NoErr

\* C10 as claimed: every step that changes an arc document is the write of
\* a caller that holds the lock of the document's key.
WritesOnlyUnderLock ==
    [][\A k \in Keys :
          db'[k] # db[k] => \E p \in Procs : Holder(lock, k) = p /\ Writes(p)]_vars

\* C10 as amended: UpdateRelation writes an arc document only while it holds
\* the lock of the document's key, and every other change of an arc document
\* is the upsert of a CreateArc, which takes no lock.
UpdateWritesUnderLock ==
    [][/\ \A p \in Procs : Writes(p) => Holder(lock, GetMetaId(loc[p].la)) = p
       /\ \A k \in Keys :
            db'[k] # db[k] =>
                \/ \E p \in Procs : Holder(lock, k) = p /\ Writes(p)
                \/ \E p \in Procs : Creates(p)]_vars

UpdateWritesUnderLockWitness ==
    /\ Done("p1") /\ ret["p2"].op = "CreateArc" /\ ret["p2"].err = NoErr
    /\ lock[AB] = NoProc
    /\ RelMap(db[AB]) = (FOLLOW :> TRUE) @@ (LIKE :> TRUE)
    /\ db[AB].tail = NodeA /\ db[AB].head = NodeB

\* the rows of a sequence, and the rows the traversal's filter selects
Range(seq) == {seq[i] : i \in 1..Len(seq)}
FixedEnd == IF scen.dir = "tails" THEN "head" ELSE "tail"
SelectedRows ==
    {db[k][Other(FixedEnd)] : k \in Selected(db, FixedEnd, scen.node, scen.verb)}

Ascending(seq) ==
    \A i, j \in 1..Len(seq) : i < j => NameRank(seq[i].name) <= NameRank(seq[j].name)

NoDuplicates(seq) == \A i, j \in 1..Len(seq) : i # j => seq[i] # seq[j]

\* the paging caller has paged to the end, the iterator has returned
PagedOut == pg.done /\ pg.err = NoErr
Iterated == fe.pc = "done"

\* C8 as claimed: on a store nobody changes, the pages of QueryTails
\* (QueryHeads) from offset 0 to the first short page, concatenated, are the
\* sequence of callbacks of one ForEachTail (ForEachHead) pass, ascending by
\* name, without duplicates and without omissions.
PaginationConsistent ==
    (PagedOut /\ Iterated) =>
        /\ pg.pages = fe.log
        /\ Ascending(pg.pages)
        /\ NoDuplicates(pg.pages)
        /\ Range(pg.pages) = SelectedRows

\* C9 as claimed: on a store nobody changes, Indegree (Outdegree) is the
\* number of distinct nodes the pages of QueryTails (QueryHeads) from
\* offset 0 to the first short page return.
DegreeConsistent ==
    (PagedOut /\ deg.called /\ deg.err = NoErr) =>
        deg.count = Cardinality(Range(pg.pages))

\* caller p's CreateArc has returned without error
CreatedOk(p) == pc[p] = "idle" /\ ret[p].op = "CreateArc" /\ ret[p].err = NoErr

\* this step is caller p's first call, a successful CreateArc
FirstCreates(p) == ret[p].op = NoOp /\ Creates(p)

\* C11: a successful CreateArc(tail, head, R, opts) leaves the pair's
\* document with the relation map R and nothing of the map stored before,
\* and after two CreateArc calls on the pair the stored map is that of one
\* of the two callers, never a mixture.
CreateOverwrites ==
    /\ [][\A p \in Procs :
            FirstCreates(p) =>
                /\ db'[AB] # NoDoc
                /\ db'[AB].relation = MakeRel(plan[p])
                /\ db'[AB].tail = NodeA /\ db'[AB].head = NodeB]_vars
    /\ []((CreatedOk("p1") /\ CreatedOk("p2"))
            => /\ db[AB] # NoDoc
               /\ db[AB].relation \in {MakeRel(plan["p1"]), MakeRel(plan["p2"])})

CreateOverwritesWitness ==
    /\ CreatedOk("p1") /\ CreatedOk("p2")
    /\ plan["p1"] = (FOLLOW :> TRUE) /\ plan["p2"] = (LIKE :> TRUE)
    /\ RelMap(prior[AB]) = (FOLLOW :> FALSE) @@ (LIKE :> FALSE)
    /\ RelMap(db[AB]) = (LIKE :> TRUE)

\* C12 as claimed: createdAt of an arc is the time of the call that first
\* created the document, CreateArc or the first UpdateRelation on the pair,
\* and no later CreateArc or UpdateRelation on the pair changes it.
CreatedAtSetOnce ==
    /\ [](db[AB] # NoDoc => db[AB].createdAt # 0)
    /\ [][db[AB] # NoDoc =>
            db'[AB] # NoDoc /\ db'[AB].createdAt = db[AB].createdAt]_vars

\* the number of documents the traversal's filter selects
MatchCount == Cardinality(Selected(db, FixedEnd, scen.node, scen.verb))

\* this step is a successful QueryTails / QueryHeads of the paging caller
PageReturned == pg'.calls = pg.calls + 1 /\ pg'.err = NoErr

\* C13: a successful QueryTails / QueryHeads(node, verb, limit, offset)
\* returns size <= limit, leaves size rows in Results, sets PrevOffset to
\* offset and NextOffset to offset + size, and when size < limit no matching
\* row is left at offset + size or later.
PageContract ==
    [][PageReturned =>
          /\ pg'.size <= scen.limit
          /\ Len(pg'.qr.results) = pg'.size
          /\ ParseInt(pg'.qr.prevOffset) = NextPageOffset
          /\ ParseInt(pg'.qr.nextOffset) = NextPageOffset + pg'.size
          /\ pg'.size < scen.limit => NextPageOffset + pg'.size >= MatchCount]_vars

PageContractWitness ==
    /\ pg.calls = 2 /\ pg.err = NoErr
    /\ scen.limit = 2 /\ pg.size = 1
    /\ pg.qr.prevOffset = "2" /\ pg.qr.nextOffset = "3"
    /\ MatchCount = 3

\* C14 as claimed: a ForEachTail / ForEachHead pass without a query failure
\* on a store nobody changes calls back exactly once for each matching arc,
\* in ascending order of the projected node's name across all rounds.
ForEachVisitOrder ==
    Iterated =>
        /\ Len(fe.log) = MatchCount
        /\ Range(fe.log) = SelectedRows
        /\ Ascending(fe.log)

\* C16: with N matching rows and maximum page size M, a pass without a query
\* failure issues floor(N/M) + 1 paged queries, at offsets 0, M, 2M, ...,
\* stops after the first round of fewer than M rows and queries no more.
ForEachTerminates ==
    /\ [](fe.pc \in {"loop", "done"} =>
            /\ fe.calls <= (MatchCount \div QUERY_LIMIT_MAX) + 1
            /\ fe.pc = "loop" => fe.offset = QUERY_LIMIT_MAX * fe.calls
            /\ fe.pc = "done" =>
                  /\ fe.calls = (MatchCount \div QUERY_LIMIT_MAX) + 1
                  /\ fe.size < QUERY_LIMIT_MAX)
    /\ [][fe.pc = "done" => fe' = fe]_vars

ForEachTerminatesWitness ==
    /\ fe.pc = "done" /\ fe.calls = 2 /\ fe.size = 0
    /\ MatchCount = QUERY_LIMIT_MAX

\* C17: when the paged query of round k fails the pass ends at once: the
\* callback has run for the rows of rounds 1..k-1 only, and no query and no
\* callback follows.
SwallowedIterationError ==
    /\ [][(fe.pc = "loop" /\ fe'.pc = "failed") =>
            fe'.log = fe.log /\ fe'.calls = fe.calls + 1]_vars
    /\ [](fe.pc = "failed" => Len(fe.log) = QUERY_LIMIT_MAX * (fe.calls - 1))
    /\ [][fe.pc = "failed" => fe' = fe]_vars

SwallowedIterationErrorWitness ==
    /\ fe.pc = "failed" /\ fe.calls = 2 /\ Len(fe.log) = QUERY_LIMIT_MAX
    /\ MatchCount > QUERY_LIMIT_MAX

\* the stored arcs at the traversal's fixed endpoint that hold the verb as true
Active ==
    {k \in Keys :
        /\ db[k] # NoDoc
        /\ db[k][FixedEnd].type = scen.node.type
        /\ db[k][FixedEnd].id = scen.node.id
        /\ scen.verb \in TrueVerbs(RelMap(db[k]))}

\* C15: between calls of UpdateRelation, Indegree(h, v) is the number of
\* stored arcs with head h that hold v as true and Outdegree(t, v) the number
\* with tail t; an arc whose v a {v: false} map removed is not counted and
\* not listed.
TraversalReflectsStore ==
    [][/\ (deg' # deg /\ deg'.err = NoErr) => deg'.count = Cardinality(Active)
       /\ PageReturned =>
             \A n \in 1..Len(pg'.qr.results) :
                 \E k \in Active : db[k][Other(FixedEnd)] = pg'.qr.results[n]]_vars

TraversalReflectsStoreWitness ==
    /\ scen.dir = "tails"
    /\ \E p \in Procs : Done(p)
    /\ FOLLOW \in TrueVerbs(RelMap(prior["u:1>u:3"]))
    /\ FOLLOW \in TrueVerbs(RelMap(prior["u:2>u:3"]))
    /\ FOLLOW \notin DOMAIN RelMap(db["u:1>u:3"])
    /\ FOLLOW \in TrueVerbs(RelMap(db["u:2>u:3"]))
    /\ FOLLOW \notin DOMAIN RelMap(db["u:3>u:3"])
    /\ deg.called /\ deg.err = NoErr /\ deg.count = 1
    /\ pg.calls = 1 /\ Len(pg.qr.results) = 1 /\ pg.qr.results[1].id = "2"

\* caller p's UpdateRelation has returned an error
Failed(p) == pc[p] = "idle" /\ ret[p].op = "UpdateRelation" /\ ret[p].err # NoErr

\* this step is the return of caller p's UpdateRelation with an error
Fails(p) ==
    /\ ret[p].op = NoOp
    /\ ret'[p].op = "UpdateRelation" /\ ret'[p].err # NoErr

\* C18: an UpdateRelation that fails at db.GetLock or at db.WriteUnlock leaves
\* the stored documents as they were, and the copy it merged into is never
\* in the store: no step but a successful write changes a document.
FailedUpdateLeavesStore ==
    /\ [][\A p \in Procs : Fails(p) => db' = db]_vars
    /\ [][db' # db => \E p \in Procs : Writes(p)]_vars
    /\ [](\A p \in Procs :
            (Failed(p) /\ \A q \in Procs \ {p} : ~Done(q)) => db = prior)

FailedUpdateLeavesStoreWitness ==
    /\ Failed("p1") /\ ret["p1"].err = StoreError /\ ~Started("p2")
    /\ plan["p1"] = (FOLLOW :> TRUE) @@ (LIKE :> FALSE)
    /\ RelMap(prior[AB]) = (LIKE :> TRUE)
    /\ db = prior

\* caller p's db.WriteUnlock has failed and the lock of the key is still p's
HoldsAfterFailedWrite(p) ==
    /\ pc[p] = "idle" /\ ret[p].op = "UpdateRelation" /\ ret[p].err = StoreError
    /\ Holder(lock, AB) = p

\* C19 as claimed: when the write-unlock step of an UpdateRelation that holds
\* the lock of a key fails, the lock is eventually released: the key never
\* stays locked forever.
LockReleasedAfterFailedWrite ==
    \A p \in Procs : HoldsAfterFailedWrite(p) ~> (Holder(lock, AB) # p)

\* the relation sets the store holds for the pair over the two calls
StoredSets ==
    LET R == RelMap(prior[AB])
    IN {R} \cup {Applied(R, plan[p]) : p \in Procs}
           \cup {Applied(Applied(R, plan[p]), plan[q]) : p, q \in Procs}

\* the reader's GetRelation has returned a relation set
ReaderGot == ret["rd"].op = "GetRelation" /\ ret["rd"].err = NoErr

\* C20: a GetRelation that runs while UpdateRelation calls on the pair are
\* under way returns the set stored before a merge or a fully merged set,
\* never a set with only part of a caller's map applied.
AtomicVisibility ==
    /\ ReaderGot => ret["rd"].r.m \in StoredSets
    /\ (ReaderGot /\ ~Started("p2"))
         => ret["rd"].r.m \in {RelMap(prior[AB]), Applied(RelMap(prior[AB]), plan["p1"])}

AtomicVisibilityWitness ==
    /\ ReaderGot /\ pc["p1"] = "write" /\ ~Started("p2")
    /\ plan["p1"] = (FOLLOW :> TRUE) @@ (LIKE :> FALSE)
    /\ RelMap(prior[AB]) = (LIKE :> TRUE)
    /\ ret["rd"].r.m = (LIKE :> TRUE)

=============================================================================
